---- MODULE Spec2Model ----
(***************************************************************************)
(* Model of frostbyte_term's session controller (UI::update and the        *)
(* helpers it calls) together with the window system it sends commands to, *)
(* and of the event loop poll_events_sub with its SIGUSR1 flag.            *)
(*                                                                         *)
(* Spec      : the controller, fed with the messages iced can deliver.     *)
(* LoopSpec  : the polling loop, its four event sources and its channel.   *)
(***************************************************************************)
EXTENDS Integers, Sequences, FiniteSets, TLC

\* ---------------------------------------------------------------- bounds
\* The largest tab id open_tab is allowed to allocate in the model.
MaxTabs == 3
\* The largest window id window::open / window::Id::unique hands out.
MaxWin == 3
\* How many events (signals, hotkey, tray menu and tray icon events) the
\* environment of the event loop produces in a run.
MaxEvents == 4

\* --------------------------------------------------------------- constants
\* window_id: None
NoWindow == 0
\* const SIGUSR1_U: the value the signal handler stores into the flag
SIGUSR1_U == 10
\* channel(32, ..): the capacity of the stream's channel
ChannelCapacity == 32

VARIABLES
    \* ---- struct UI
    terminals,          \* keys of the BTreeMap<u32, LocalTerminal>
    window_id,          \* Option<window::Id>, NoWindow for None
    selected_tab,       \* u32
    new_terminal_id,    \* u32
    mode,               \* Mode::Winit | Mode::Layershell
    \* ---- the iced runtime and the window system the tasks act on
    windows,            \* ids of the overlay windows that exist
    nextWindowId,       \* the counter behind window::Id::unique()
    closeEvents,        \* window close events not yet delivered as WindowClosed
    exitPending,        \* update has returned iced::exit(), a Task for the runtime
    exited,             \* the runtime has run that Task: no update follows
    \* ---- observation of the last step
    cmds,               \* the Task returned by the last update, as a set of commands
    lastMsg,            \* the message the last update processed
    toggleRun,          \* n if the run so far is exactly n Hotkey messages, else -1
    scenario,           \* length of the matched prefix of Scenario, else -1
    allocated,          \* every tab id open_tab has handed out so far
    \* ---- poll_events_sub
    pc,                 \* where the loop task stands
    flag_counter,       \* the value in the Arc<AtomicUsize> the loop reads
    registered,         \* that Arc is registered for SIGUSR1
    hotkey_receiver,    \* GlobalHotKeyEvent::receiver(): queued key transitions
    tray_menu_receiver, \* MenuEvent::receiver(): number of queued menu events
    tray_icon_receiver, \* TrayIconEvent::receiver(): queued icon events
    sender,             \* the channel's buffer: messages sent, not yet received
    events,             \* number of events the environment has produced
    sigSinceEmit,       \* a signal was delivered since the flag's last toggle was sent
    sigSinceArm,        \* a signal was delivered since the flag was last registered
    flagEmits,          \* number of toggles sent because of the flag
    iter,               \* the sources that took an event in this iteration, in order
    senderSrc,          \* for each message in the buffer: its source and its event
    occurred,           \* per source, the number of events that have occurred
    lastRecv,           \* per source, the number of the event last received
    sigSinceCheck,      \* number of signals delivered since the loop last read the flag
    \* ---- enum Hotkey and the environment it is chosen from
    debug_env,          \* std::env::var_os("DEBUG").is_some()
    target_os,          \* cfg(target_os)
    hotkey,             \* UI.hotkey: Hotkey::default()
    keyEvent,           \* the last key press given to the terminal's key filter
    filtered            \* what Hotkey::filter's closure answered for it

uiVars == <<terminals, window_id, selected_tab, new_terminal_id, mode>>
envVars == <<windows, nextWindowId, closeEvents, exitPending, exited>>
obsVars == <<cmds, lastMsg, toggleRun, scenario, allocated>>
hkVars == <<debug_env, target_os, hotkey, keyEvent, filtered>>
ctlVars == <<uiVars, envVars, obsVars, hkVars>>

loopVars == <<pc, flag_counter, registered, hotkey_receiver, tray_menu_receiver,
              tray_icon_receiver, sender, events, sigSinceEmit, sigSinceArm, flagEmits,
              iter, senderSrc, occurred, lastRecv, sigSinceCheck>>

vars == <<ctlVars, loopVars>>

\* ------------------------------------------------------------- messages
Msg(t, i, a) == [type |-> t, id |-> i, action |-> a]

\* the UI aggregate the methods take as &mut self
Self == [terminals |-> terminals, window_id |-> window_id,
         selected_tab |-> selected_tab, new_terminal_id |-> new_terminal_id,
         mode |-> mode]

\* a method's result: the aggregate after it and the Task it returns
Ret(s, t) == [ui |-> s, task |-> t]

Min(S) == CHOOSE x \in S : \A y \in S : x <= y

\* fn focus_tab: a future that sleeps 50 ms and then yields FocusTab(id)
focus_tab(id) == {<<"FocusTab", id>>}

\* close_window that issues window::close and keeps the handle
close_window_keeps_handle(s) ==
    IF s.window_id # NoWindow
    THEN [ui |-> s, task |-> {<<"window::close", s.window_id>>}]
    ELSE [ui |-> s, task |-> {}]

\* close_window that closes the tabs with the window
close_window_drops_tabs(s) ==
    IF s.window_id # NoWindow
    THEN [ui |-> [s EXCEPT !.window_id = NoWindow, !.terminals = {}],
          task |-> {<<"window::close", s.window_id>>}]
    ELSE [ui |-> s, task |-> {}]

\* fn close_window
close_window(s) ==
    IF s.window_id # NoWindow
    THEN Ret([s EXCEPT !.window_id = NoWindow], {<<"window::close", s.window_id>>})
    ELSE Ret(s, {})

\* open_tab that numbers the new tab by the count of open tabs
open_tab_by_count(s) ==
    LET id == Cardinality(s.terminals) + 1
    IN [ui |-> [s EXCEPT !.new_terminal_id = id + 1,
                         !.terminals = s.terminals \cup {id},
                         !.selected_tab = id],
        task |-> {<<"LocalTerminal::start", id>>} \cup focus_tab(id)]

\* fn open_tab. new_terminal_id is a u32; the actions keep it at most
\* MaxTabs + 1, far below u32::MAX, so "+= 1" never overflows here.
open_tab(s) ==
    LET id == s.new_terminal_id
    IN Ret([s EXCEPT !.new_terminal_id = id + 1,
                     !.terminals = s.terminals \cup {id},
                     !.selected_tab = id],
           {<<"LocalTerminal::start", id>>} \cup focus_tab(id))

\* open_window without the first-open tab
open_window_no_tab(s, fresh) ==
    IF s.window_id # NoWindow
    THEN [ui |-> s, task |-> {<<"window::gain_focus", s.window_id>>}]
    ELSE [ui |-> [s EXCEPT !.window_id = fresh],
          task |-> IF s.mode = "Winit" THEN {<<"window::open", fresh>>}
                   ELSE {<<"NewLayerShell", fresh>>}]

\* open_window that opens a tab whether or not one exists
open_window_always_tab(s, fresh) ==
    IF s.window_id # NoWindow
    THEN [ui |-> s, task |-> {<<"window::gain_focus", s.window_id>>}]
    ELSE LET r == open_tab([s EXCEPT !.window_id = fresh])
         IN [ui |-> r.ui,
             task |-> r.task \cup (IF s.mode = "Winit" THEN {<<"window::open", fresh>>}
                                   ELSE {<<"NewLayerShell", fresh>>})]

\* fn open_window; fresh is the id window::open / window::Id::unique returns
open_window(s, fresh) ==
    IF s.window_id # NoWindow
    THEN Ret(s, {<<"window::gain_focus", s.window_id>>})
    ELSE LET s1 == [s EXCEPT !.window_id = fresh]
             task == IF s.mode = "Winit"
                     THEN {<<"window::open", fresh>>}
                     ELSE {<<"NewLayerShell", fresh>>}
         IN IF s1.terminals = {}
            THEN LET r == open_tab(s1) IN Ret(r.ui, r.task \cup task)
            ELSE Ret(s1, task)

\* close_tab that leaves the window open when the last tab goes
close_tab_leaves_window(s, id) ==
    LET s1 == [s EXCEPT !.terminals = s.terminals \ {id}]
    IN IF s1.terminals # {}
       THEN [ui |-> [s1 EXCEPT !.selected_tab = Min(s1.terminals)],
             task |-> focus_tab(Min(s1.terminals))]
       ELSE [ui |-> s1, task |-> {}]

\* close_tab that never reselects
close_tab_no_reselect(s, id) ==
    LET s1 == [s EXCEPT !.terminals = s.terminals \ {id}]
    IN IF s1.terminals # {}
       THEN [ui |-> s1, task |-> focus_tab(s1.selected_tab)]
       ELSE close_window(s1)

\* close_tab that reselects only when the selected tab was the one closed
close_tab_keep_selected(s, id) ==
    LET s1 == [s EXCEPT !.terminals = s.terminals \ {id}]
        sel == IF s.selected_tab \in s1.terminals THEN s.selected_tab
               ELSE Min(s1.terminals)
    IN IF s1.terminals # {}
       THEN [ui |-> [s1 EXCEPT !.selected_tab = sel], task |-> focus_tab(sel)]
       ELSE close_window(s1)

\* fn close_tab
close_tab(s, id) ==
    LET s1 == [s EXCEPT !.terminals = s.terminals \ {id}]
    IN IF s1.terminals # {}
       THEN LET first == Min(s1.terminals)
            IN Ret([s1 EXCEPT !.selected_tab = first], focus_tab(first))
       ELSE close_window(s1)

\* switch_tab that does not look the id up
switch_tab_unchecked(s, id) ==
    [ui |-> [s EXCEPT !.selected_tab = id], task |-> focus_tab(id)]

\* fn switch_tab
switch_tab(s, id) ==
    IF id \in s.terminals
    THEN Ret([s EXCEPT !.selected_tab = id], focus_tab(id))
    ELSE Ret(s, {})

\* a WindowClosed arm that also drops the tabs
window_closed_drops_tabs(s) ==
    [ui |-> [s EXCEPT !.window_id = NoWindow, !.terminals = {}], task |-> {}]

\* fn update, arm Message::WindowClosed
window_closed(s) == Ret([s EXCEPT !.window_id = NoWindow], {})

\* fn update; m.action is what LocalTerminal::update answers for m
update(s, m, fresh) ==
    CASE m.type = "LocalTerminal" ->
            IF m.id \notin s.terminals THEN Ret(s, {})
            ELSE CASE m.action = "Close" -> close_tab(s, m.id)
                   [] m.action = "Run" -> Ret(s, {<<"terminal_task", m.id>>})
                   [] OTHER -> Ret(s, {})
      [] m.type = "OpenTab" -> open_tab(s)
      [] m.type = "SwitchTab" -> switch_tab(s, m.id)
      [] m.type = "FocusTab" ->
            IF m.id \in s.terminals THEN Ret(s, {<<"term.focus", m.id>>})
            ELSE Ret(s, {})
      [] m.type = "CloseTab" -> close_tab(s, m.id)
      [] m.type = "Hotkey" ->
            IF s.window_id # NoWindow THEN close_window(s) ELSE open_window(s, fresh)
      [] m.type = "WindowOpened" ->
            IF s.selected_tab \in s.terminals
            THEN Ret(s, {<<"window::gain_focus", m.id>>, <<"term.focus", s.selected_tab>>})
            ELSE Ret(s, {})
      [] m.type = "CloseWindow" -> close_window(s)
      [] m.type = "WindowClosed" -> window_closed(s)
      [] m.type = "Shutdown" -> Ret(s, {<<"iced::exit", 0>>})
      [] OTHER -> Ret(s, {})

\* ------------------------------------------------- the runtime runs a Task
Opened(task) == {c[2] : c \in {d \in task : d[1] \in {"window::open", "NewLayerShell"}}}
Closed(task) == {c[2] : c \in {d \in task : d[1] = "window::close"}}
Started(task) == {c[2] : c \in {d \in task : d[1] = "LocalTerminal::start"}}

\* The test scenario of the specification, as messages.
Scenario == <<Msg("OpenTab", 0, "None"), Msg("OpenTab", 0, "None"),
              Msg("CloseTab", 2, "None"), Msg("CloseTab", 1, "None")>>

\* One turn of the runtime: update(m) and the effects of the Task it returns.
\* window::open creates the window and later yields WindowOpened(id);
\* window::close removes it and the window system later reports its closing
\* through window::close_events(), as it does for a window closed from outside.
\* iced::exit() is a Task like the others: update returns normally, and the
\* runtime stops at a later step (RunExit); messages it has already queued,
\* such as the next message of the same poll iteration, still reach update.
Handle(m, fresh) ==
    LET r == update(Self, m, fresh)
    IN /\ ~exited
       /\ terminals' = r.ui.terminals
       /\ window_id' = r.ui.window_id
       /\ selected_tab' = r.ui.selected_tab
       /\ new_terminal_id' = r.ui.new_terminal_id
       /\ mode' = mode
       /\ cmds' = r.task
       /\ lastMsg' = m
       /\ windows' = (windows \cup Opened(r.task)) \ Closed(r.task)
       /\ nextWindowId' = IF Opened(r.task) # {} THEN nextWindowId + 1 ELSE nextWindowId
       /\ closeEvents' = (IF m.type = "WindowClosed" THEN closeEvents - 1 ELSE closeEvents)
                            + Cardinality(Closed(r.task) \cap windows)
       /\ exitPending' = (exitPending \/ <<"iced::exit", 0>> \in r.task)
       /\ exited' = exited
       /\ toggleRun' = IF m.type = "Hotkey" /\ toggleRun >= 0 THEN toggleRun + 1 ELSE -1
       /\ scenario' = IF scenario \in 0..(Len(Scenario) - 1) /\ m = Scenario[scenario + 1]
                      THEN scenario + 1 ELSE -1
       /\ allocated' = allocated \cup Started(r.task)

\* a message that does not come through the poll loop's stream: the loop's
\* state stays as it is
Deliver(m, fresh) ==
    /\ Handle(m, fresh)
    /\ UNCHANGED <<loopVars, hkVars>>

\* Ids a message can carry: a tab button of a view rendered earlier (SwitchTab,
\* CloseTab), a terminal's own task (LocalTerminal) or focus_tab's sleeping
\* future (FocusTab) names a tab that was opened, open still or closed since.
Rendered == 1..(new_terminal_id - 1)

\* Windows for which window::open's task may still yield WindowOpened(id).
EverOpened == 1..(nextWindowId - 1)

\* ------------------------------------------------------------- actions
OpenTab ==
    /\ new_terminal_id <= MaxTabs
    /\ Deliver(Msg("OpenTab", 0, "None"), 0)

SwitchTab ==
    \E id \in Rendered : Deliver(Msg("SwitchTab", id, "None"), 0)

\* FocusTab and WindowOpened only read the aggregate, so the model does not
\* count the pending ones: each may arrive at any time after it was scheduled.
FocusTab ==
    \E id \in Rendered : Deliver(Msg("FocusTab", id, "None"), 0)

CloseTab ==
    \E id \in Rendered : Deliver(Msg("CloseTab", id, "None"), 0)

LocalTerminal ==
    \E id \in Rendered : \E a \in {"Close", "Run", "None"} :
        Deliver(Msg("LocalTerminal", id, a), 0)

Hotkey ==
    /\ window_id = NoWindow =>
          /\ nextWindowId <= MaxWin
          /\ terminals = {} => new_terminal_id <= MaxTabs
    /\ Deliver(Msg("Hotkey", 0, "None"), nextWindowId)

WindowOpened ==
    \E id \in EverOpened : Deliver(Msg("WindowOpened", id, "None"), 0)

CloseWindow ==
    /\ ~exited
    /\ Deliver(Msg("CloseWindow", 0, "None"), 0)

WindowClosed ==
    /\ closeEvents > 0
    /\ Deliver(Msg("WindowClosed", 0, "None"), 0)

Shutdown ==
    /\ ~exited
    /\ Deliver(Msg("Shutdown", 0, "None"), 0)

Dummy ==
    /\ ~exited
    /\ Deliver(Msg("Dummy", 0, "None"), 0)

\* the compositor closes the overlay window outside the controller's close path
ExternalClose ==
    /\ ~exited
    /\ \E w \in windows :
          /\ windows' = windows \ {w}
          /\ closeEvents' = closeEvents + 1
    /\ cmds' = {}
    /\ lastMsg' = Msg("ExternalClose", 0, "None")
    /\ UNCHANGED <<uiVars, nextWindowId, exitPending, exited, toggleRun, scenario, allocated,
                   loopVars,
                   hkVars>>

\* impl Default for Hotkey
Default(debug, os) ==
    IF debug THEN "Pause"
    ELSE IF os = "linux" THEN "F12" ELSE "AltF12"

\* fn Hotkey::global_hotkey: hotkey::HotKey::new(modifiers, code)
global_hotkey(h) ==
    CASE h = "F12" -> [code |-> "F12", mods |-> {}]
      [] h = "AltF12" -> [code |-> "F12", mods |-> {"ALT"}]
      [] h = "Pause" -> [code |-> "Pause", mods |-> {}]

\* Hotkey::iced with AltF12's modifiers left empty
iced_without_alt(h) ==
    CASE h = "F12" -> [key |-> "F12", mods |-> {}]
      [] h = "AltF12" -> [key |-> "F12", mods |-> {}]
      [] h = "Pause" -> [key |-> "Pause", mods |-> {}]

\* fn Hotkey::iced: (keyboard::Key::Named(..), keyboard::Modifiers)
iced(h) ==
    CASE h = "F12" -> [key |-> "F12", mods |-> {}]
      [] h = "AltF12" -> [key |-> "F12", mods |-> {"ALT"}]
      [] h = "Pause" -> [key |-> "Pause", mods |-> {}]

\* the closure fn Hotkey::filter returns, applied to (key, modifiers)
filter(h, key, mods) ==
    IF key = "T" /\ "CTRL" \in mods /\ "SHIFT" \in mods
    THEN TRUE
    ELSE IF key = iced(h).key /\ mods = iced(h).mods
         THEN TRUE
         ELSE FALSE

\* keys and modifiers a key press can carry
Keys == {"F12", "Pause", "T", "t", "F11"}
Modifiers == {"CTRL", "SHIFT", "ALT", "LOGO"}
NoKey == [key |-> "none", mods |-> {}]

\* the runtime runs the iced::exit() Task: the event loop ends
RunExit ==
    /\ exitPending
    /\ ~exited
    /\ exited' = TRUE
    /\ cmds' = {}
    /\ lastMsg' = Msg("RunExit", 0, "None")
    /\ UNCHANGED <<uiVars, windows, nextWindowId, closeEvents, exitPending, toggleRun,
                   scenario, allocated, loopVars, hkVars>>

\* fn start_in_mode and the locals of poll_events_sub before its loop
StartState ==
    /\ terminals = {}
    /\ window_id = NoWindow
    /\ selected_tab = 1
    /\ new_terminal_id = 1
    /\ mode \in {"Winit", "Layershell"}
    /\ windows = {}
    /\ nextWindowId = 1
    /\ closeEvents = 0
    /\ exitPending = FALSE
    /\ exited = FALSE
    /\ cmds = {}
    /\ lastMsg = Msg("start", 0, "None")
    /\ toggleRun = 0
    /\ scenario = 0
    /\ allocated = {}
    /\ pc = "check_flag"
    /\ flag_counter = 0
    /\ registered = TRUE
    /\ hotkey_receiver = <<>>
    /\ tray_menu_receiver = 0
    /\ tray_icon_receiver = <<>>
    /\ sender = <<>>
    /\ events = 0
    /\ sigSinceEmit = FALSE
    /\ sigSinceArm = FALSE
    /\ flagEmits = 0
    /\ iter = <<>>
    /\ senderSrc = <<>>
    /\ occurred = [src \in {"hotkey", "menu", "icon"} |-> 0]
    /\ lastRecv = [src \in {"hotkey", "menu", "icon"} |-> 0]
    /\ sigSinceCheck = 0
    /\ hotkey = Default(debug_env, target_os)
    /\ keyEvent = NoKey
    /\ filtered = FALSE

\* The controller and the event loop never read the hotkey: their
\* specifications run in one environment, Linux without DEBUG.
Init ==
    /\ debug_env = FALSE
    /\ target_os = "linux"
    /\ StartState

Next ==
    \/ OpenTab
    \/ SwitchTab
    \/ FocusTab
    \/ CloseTab
    \/ LocalTerminal
    \/ Hotkey
    \/ WindowOpened
    \/ CloseWindow
    \/ WindowClosed
    \/ Shutdown
    \/ Dummy
    \/ ExternalClose
    \/ RunExit

Spec == Init /\ [][Next]_vars

\* --------------------------------------------------------- enum Hotkey
\* Every environment the program can start in; Mode::Layershell exists on
\* Linux only.
HotkeyInit ==
    /\ debug_env \in BOOLEAN
    /\ target_os \in {"linux", "windows", "macos"}
    /\ StartState
    /\ mode = "Layershell" => target_os = "linux"

\* a key press reaches the focused terminal, which asks the key filter
KeyPress ==
    /\ \E key \in Keys : \E mods \in SUBSET Modifiers :
          /\ keyEvent' = [key |-> key, mods |-> mods]
          /\ filtered' = filter(hotkey, key, mods)
    /\ UNCHANGED <<uiVars, envVars, obsVars, loopVars, debug_env, target_os, hotkey>>

HotkeyNext == KeyPress

HotkeySpec == HotkeyInit /\ [][HotkeyNext]_vars

\* ------------------------------------------------------ poll_events_sub
\* sender.send(m).await: completes when the channel has room
Send(m) ==
    /\ Len(sender) < ChannelCapacity
    /\ sender' = Append(sender, m)

\* the sources whose events arrive through a receiver of their own
EventSources == {"hotkey", "menu", "icon"}

\* place of a source in the loop body: flag, hotkey, tray menu, tray icon
Rank(src) ==
    CASE src = "flag" -> 1
      [] src = "hotkey" -> 2
      [] src = "menu" -> 3
      [] src = "icon" -> 4

\* number, in order of occurrence, of the oldest of `queued` waiting events of src
Oldest(src, queued) == occurred[src] - queued + 1

\* sender.send(m).await for event number n of src, whose kind is `kind`
Emit(src, n, kind, m) ==
    /\ Send(m)
    /\ senderSrc' = Append(senderSrc, <<src, n, kind>>)

\* if flag_counter.load(Ordering::Relaxed) == SIGUSR1_U
CheckFlag ==
    /\ pc = "check_flag"
    /\ pc' = IF flag_counter = SIGUSR1_U THEN "send_flag" ELSE "hotkey"
    /\ sigSinceCheck' = 0
    /\ UNCHANGED <<flag_counter, registered, hotkey_receiver, tray_menu_receiver,
                   tray_icon_receiver, sender, events, sigSinceEmit, sigSinceArm,
                   flagEmits, iter, senderSrc, occurred, lastRecv, ctlVars>>

\* sender.send(Message::Hotkey).await inside the flag branch
SendFlag ==
    /\ pc = "send_flag"
    /\ Emit("flag", flagEmits + 1, "SIGUSR1", "Hotkey")
    /\ iter' = Append(iter, "flag")
    /\ pc' = "reset_flag"
    /\ sigSinceEmit' = FALSE
    /\ flagEmits' = flagEmits + 1
    /\ UNCHANGED <<flag_counter, registered, hotkey_receiver, tray_menu_receiver,
                   tray_icon_receiver, events, sigSinceArm, occurred, lastRecv,
                   sigSinceCheck,
                   ctlVars>>

\* a re-arm that registers the same flag again without zeroing it
ResetFlag_same_flag ==
    /\ pc = "reset_flag"
    /\ pc' = "register"
    /\ UNCHANGED <<flag_counter, registered, hotkey_receiver, tray_menu_receiver,
                   tray_icon_receiver, sender, events, sigSinceEmit, sigSinceArm,
                   flagEmits, iter, senderSrc, occurred, lastRecv, sigSinceCheck,
                   ctlVars>>

\* flag_counter = Arc::new(AtomicUsize::new(0)): a new flag, not yet registered;
\* the old one stays with its handler and is never read again
ResetFlag ==
    /\ pc = "reset_flag"
    /\ flag_counter' = 0
    /\ registered' = FALSE
    /\ pc' = "register"
    /\ UNCHANGED <<hotkey_receiver, tray_menu_receiver, tray_icon_receiver, sender,
                   events, sigSinceEmit, sigSinceArm, flagEmits, iter, senderSrc,
                   occurred, lastRecv, sigSinceCheck,
                   ctlVars>>

\* signal_flag::register_usize(SIGUSR1, Arc::clone(&flag_counter), SIGUSR1_U)
Register ==
    /\ pc = "register"
    /\ registered' = TRUE
    /\ sigSinceArm' = FALSE
    /\ pc' = "hotkey"
    /\ UNCHANGED <<flag_counter, hotkey_receiver, tray_menu_receiver,
                   tray_icon_receiver, sender, events, sigSinceEmit, flagEmits,
                   iter, senderSrc, occurred, lastRecv, sigSinceCheck,
                   ctlVars>>

\* a poll that empties the hotkey queue, one message per queued transition
PollHotkey_drain_all ==
    /\ pc = "hotkey"
    /\ IF hotkey_receiver # <<>>
       THEN /\ Len(sender) + Len(hotkey_receiver) <= ChannelCapacity
            /\ sender' = sender \o [i \in 1..Len(hotkey_receiver) |->
                            IF hotkey_receiver[i] = "Pressed" THEN "Hotkey" ELSE "Dummy"]
            /\ senderSrc' = senderSrc \o [i \in 1..Len(hotkey_receiver) |->
                            <<"hotkey", Oldest("hotkey", Len(hotkey_receiver)) + i - 1,
                              hotkey_receiver[i]>>]
            /\ iter' = iter \o [i \in 1..Len(hotkey_receiver) |-> "hotkey"]
            /\ hotkey_receiver' = <<>>
       ELSE UNCHANGED <<hotkey_receiver, sender, senderSrc, iter>>
    /\ pc' = "tray_menu"
    /\ UNCHANGED <<flag_counter, registered, tray_menu_receiver, tray_icon_receiver,
                   events, sigSinceEmit, sigSinceArm, flagEmits, occurred, lastRecv,
                   sigSinceCheck,
                   ctlVars>>

\* a poll that sends the toggle for either transition of the hotkey
PollHotkey_any_transition ==
    /\ pc = "hotkey"
    /\ IF hotkey_receiver # <<>>
       THEN /\ Emit("hotkey", Oldest("hotkey", Len(hotkey_receiver)),
                    Head(hotkey_receiver), "Hotkey")
            /\ iter' = Append(iter, "hotkey")
            /\ hotkey_receiver' = Tail(hotkey_receiver)
       ELSE UNCHANGED <<hotkey_receiver, sender, senderSrc, iter>>
    /\ pc' = "tray_menu"
    /\ UNCHANGED <<flag_counter, registered, tray_menu_receiver, tray_icon_receiver,
                   events, sigSinceEmit, sigSinceArm, flagEmits, occurred, lastRecv,
                   sigSinceCheck,
                   ctlVars>>

\* if let Ok(event) = hotkey_receiver.try_recv()
PollHotkey ==
    /\ pc = "hotkey"
    /\ IF hotkey_receiver # <<>>
       THEN /\ Emit("hotkey", Oldest("hotkey", Len(hotkey_receiver)),
                    Head(hotkey_receiver),
                    IF Head(hotkey_receiver) = "Pressed" THEN "Hotkey" ELSE "Dummy")
            /\ iter' = Append(iter, "hotkey")
            /\ hotkey_receiver' = Tail(hotkey_receiver)
       ELSE UNCHANGED <<hotkey_receiver, sender, senderSrc, iter>>
    /\ pc' = "tray_menu"
    /\ UNCHANGED <<flag_counter, registered, tray_menu_receiver, tray_icon_receiver,
                   events, sigSinceEmit, sigSinceArm, flagEmits, occurred, lastRecv,
                   sigSinceCheck,
                   ctlVars>>

\* if let Ok(_event) = tray_menu_receiver.try_recv()
PollTrayMenu ==
    /\ pc = "tray_menu"
    /\ IF tray_menu_receiver > 0
       THEN /\ Emit("menu", Oldest("menu", tray_menu_receiver), "Exit", "Shutdown")
            /\ iter' = Append(iter, "menu")
            /\ tray_menu_receiver' = tray_menu_receiver - 1
       ELSE UNCHANGED <<tray_menu_receiver, sender, senderSrc, iter>>
    /\ pc' = "tray_icon"
    /\ UNCHANGED <<flag_counter, registered, hotkey_receiver, tray_icon_receiver,
                   events, sigSinceEmit, sigSinceArm, flagEmits, occurred, lastRecv,
                   sigSinceCheck,
                   ctlVars>>

\* a poll that takes an icon event off its queue only when it is a left press
PollTrayIcon_keeps_other ==
    /\ pc = "tray_icon"
    /\ IF tray_icon_receiver # <<>> /\ Head(tray_icon_receiver) = "LeftDown"
       THEN /\ tray_icon_receiver' = Tail(tray_icon_receiver)
            /\ iter' = Append(iter, "icon")
            /\ Emit("icon", Oldest("icon", Len(tray_icon_receiver)), "LeftDown",
                    "Hotkey")
       ELSE UNCHANGED <<tray_icon_receiver, sender, senderSrc, iter>>
    /\ pc' = "sleep"
    /\ UNCHANGED <<flag_counter, registered, hotkey_receiver, tray_menu_receiver,
                   events, sigSinceEmit, sigSinceArm, flagEmits, occurred, lastRecv,
                   sigSinceCheck,
                   ctlVars>>

\* if let Ok(event) = tray_icon_receiver.try_recv()
PollTrayIcon ==
    /\ pc = "tray_icon"
    /\ IF tray_icon_receiver # <<>>
       THEN /\ tray_icon_receiver' = Tail(tray_icon_receiver)
            /\ iter' = Append(iter, "icon")
            /\ IF Head(tray_icon_receiver) = "LeftDown"
               THEN Emit("icon", Oldest("icon", Len(tray_icon_receiver)), "LeftDown",
                         "Hotkey")
               ELSE UNCHANGED <<sender, senderSrc>>
       ELSE UNCHANGED <<tray_icon_receiver, sender, senderSrc, iter>>
    /\ pc' = "sleep"
    /\ UNCHANGED <<flag_counter, registered, hotkey_receiver, tray_menu_receiver,
                   events, sigSinceEmit, sigSinceArm, flagEmits, occurred, lastRecv,
                   sigSinceCheck,
                   ctlVars>>

\* tokio::time::sleep(50 ms).await, then the next iteration
Sleep ==
    /\ pc = "sleep"
    /\ pc' = "check_flag"
    /\ iter' = <<>>
    /\ UNCHANGED <<flag_counter, registered, hotkey_receiver, tray_menu_receiver,
                   tray_icon_receiver, sender, events, sigSinceEmit, sigSinceArm,
                   flagEmits, senderSrc, occurred, lastRecv, sigSinceCheck,
                   ctlVars>>

\* SIGUSR1 is delivered: signal_hook's handler stores SIGUSR1_U into every
\* registered flag; an unregistered new flag is not written
Signal ==
    /\ events < MaxEvents
    /\ events' = events + 1
    /\ flag_counter' = IF registered THEN SIGUSR1_U ELSE flag_counter
    /\ sigSinceEmit' = TRUE
    /\ sigSinceArm' = TRUE
    /\ sigSinceCheck' = sigSinceCheck + 1
    /\ UNCHANGED <<pc, registered, hotkey_receiver, tray_menu_receiver,
                   tray_icon_receiver, sender, flagEmits, iter, senderSrc, occurred,
                   lastRecv, ctlVars>>

\* the global hotkey is pressed or released
HotkeyEvent ==
    /\ events < MaxEvents
    /\ events' = events + 1
    /\ \E state \in {"Pressed", "Released"} :
          hotkey_receiver' = Append(hotkey_receiver, state)
    /\ occurred' = [occurred EXCEPT !["hotkey"] = @ + 1]
    /\ UNCHANGED <<pc, flag_counter, registered, tray_menu_receiver, tray_icon_receiver,
                   sender, sigSinceEmit, sigSinceArm, flagEmits, iter, senderSrc,
                   lastRecv, sigSinceCheck,
                   ctlVars>>

\* the tray menu's only item, "Exit Frostbyte", is chosen
TrayMenuEvent ==
    /\ events < MaxEvents
    /\ events' = events + 1
    /\ tray_menu_receiver' = tray_menu_receiver + 1
    /\ occurred' = [occurred EXCEPT !["menu"] = @ + 1]
    /\ UNCHANGED <<pc, flag_counter, registered, hotkey_receiver, tray_icon_receiver,
                   sender, sigSinceEmit, sigSinceArm, flagEmits, iter, senderSrc,
                   lastRecv, sigSinceCheck,
                   ctlVars>>

\* the tray icon reports a left button press, a left button release or
\* anything else (another button, a move, enter, leave)
TrayIconEvent ==
    /\ events < MaxEvents
    /\ events' = events + 1
    /\ \E e \in {"LeftDown", "LeftUp", "Other"} :
          tray_icon_receiver' = Append(tray_icon_receiver, e)
    /\ occurred' = [occurred EXCEPT !["icon"] = @ + 1]
    /\ UNCHANGED <<pc, flag_counter, registered, hotkey_receiver, tray_menu_receiver,
                   sender, sigSinceEmit, sigSinceArm, flagEmits, iter, senderSrc,
                   lastRecv, sigSinceCheck,
                   ctlVars>>

\* the consumer's record of a message it took: the number of the event behind it
Taken(tag) ==
    IF tag[1] \in EventSources THEN [lastRecv EXCEPT ![tag[1]] = tag[2]] ELSE lastRecv

\* the subscription's consumer takes the oldest message of the stream
Receive ==
    /\ sender # <<>>
    /\ sender' = Tail(sender)
    /\ senderSrc' = Tail(senderSrc)
    /\ lastRecv' = Taken(Head(senderSrc))
    /\ UNCHANGED <<pc, flag_counter, registered, hotkey_receiver, tray_menu_receiver,
                   tray_icon_receiver, events, sigSinceEmit, sigSinceArm, flagEmits,
                   iter, occurred, sigSinceCheck,
                   ctlVars>>

LoopNext ==
    \/ CheckFlag
    \/ SendFlag
    \/ ResetFlag
    \/ Register
    \/ PollHotkey
    \/ PollTrayMenu
    \/ PollTrayIcon
    \/ Sleep
    \/ Signal
    \/ HotkeyEvent
    \/ TrayMenuEvent
    \/ TrayIconEvent
    \/ Receive

LoopSpec == Init /\ [][LoopNext]_vars

\* Subscription::run(poll_events_sub): the runtime takes the oldest message of
\* the stream and gives it to update
Consume ==
    /\ sender # <<>>
    /\ (Head(sender) = "Hotkey" /\ window_id = NoWindow) =>
          /\ nextWindowId <= MaxWin
          /\ terminals = {} => new_terminal_id <= MaxTabs
    /\ Handle(Msg(Head(sender), 0, "None"), nextWindowId)
    /\ sender' = Tail(sender)
    /\ senderSrc' = Tail(senderSrc)
    /\ lastRecv' = Taken(Head(senderSrc))
    /\ UNCHANGED <<pc, flag_counter, registered, hotkey_receiver, tray_menu_receiver,
                   tray_icon_receiver, events, sigSinceEmit, sigSinceArm, flagEmits,
                   iter, occurred, sigSinceCheck,
                   hkVars>>

\* the application as it runs with nobody at the tab bar: the poll loop, the
\* runtime feeding its stream to update, and the window events
AppNext ==
    \/ CheckFlag
    \/ SendFlag
    \/ ResetFlag
    \/ Register
    \/ PollHotkey
    \/ PollTrayMenu
    \/ PollTrayIcon
    \/ Sleep
    \/ Signal
    \/ HotkeyEvent
    \/ TrayMenuEvent
    \/ TrayIconEvent
    \/ Consume
    \/ WindowOpened
    \/ WindowClosed
    \/ ExternalClose
    \/ RunExit

AppSpec == Init /\ [][AppNext]_vars

\* the steps of the spawned loop task itself
LoopTask ==
    \/ CheckFlag
    \/ SendFlag
    \/ ResetFlag
    \/ Register
    \/ PollHotkey
    \/ PollTrayMenu
    \/ PollTrayIcon
    \/ Sleep

\* the loop under a fair executor and a consumer that keeps polling the
\* stream: the task is a tokio future that is woken after every await (a
\* send that found room, the 50 ms sleep), and iced polls the subscription's
\* stream for as long as the application runs
FairLoopSpec == Init /\ [][LoopNext]_vars /\ WF_vars(LoopTask) /\ WF_vars(Receive)

\* ================================================================ claims
IsCloseTab(m) == m.type = "CloseTab" \/ (m.type = "LocalTerminal" /\ m.action = "Close")

\* C1: at most one overlay window exists at any time: the controller never
\* opens a window while a window it opened earlier still exists.
C1_OneOverlayWindow == Cardinality(windows) <= 1

\* C2: after a run of exactly n Hotkey messages from the initial state the
\* window is open iff n is odd, and for n >= 1 the tab set is the one tab the
\* first toggle created.
C2_ToggleParity ==
    toggleRun >= 0 =>
        /\ (window_id # NoWindow) <=> (toggleRun % 2 = 1)
        /\ toggleRun >= 1 => (terminals = {1} /\ allocated = {1})
        /\ toggleRun = 0 => terminals = {}

C2_Witness == toggleRun = 3 /\ window_id # NoWindow /\ terminals = {1}

\* C3: CloseTab(id) for an id that is not in the tab set changes nothing and
\* issues no command.
C3_CloseUnknownTabNoOp ==
    [][(lastMsg'.type = "CloseTab" /\ lastMsg'.id \notin terminals)
        => (/\ terminals' = terminals
            /\ selected_tab' = selected_tab
            /\ new_terminal_id' = new_terminal_id
            /\ window_id' = window_id
            /\ cmds' = {})]_vars

\* C4: every tab id handed out is greater than every id handed out before, and
\* the id counter stays above every id handed out and every key of the tab set.
C4_FreshTabIds ==
    [][/\ \A k \in Started(cmds') : \A j \in allocated : j < k
       /\ \A k \in allocated' \cup terminals' : k < new_terminal_id']_vars

C4_Witness ==
    lastMsg.type = "OpenTab" /\ allocated = {1, 2, 3} /\ terminals = {3}

\* C5: when CloseTab(id), or a terminal's Close action for id, removes the only
\* tab, the window handle is cleared and, if the window was open, a
\* window-close command for it is issued.
C5_LastTabClosesWindow ==
    [][(IsCloseTab(lastMsg') /\ terminals = {lastMsg'.id})
        => (/\ terminals' = {}
            /\ window_id' = NoWindow
            /\ window_id # NoWindow => <<"window::close", window_id>> \in cmds')]_vars

C5_Witness ==
    /\ IsCloseTab(lastMsg)
    /\ terminals = {}
    /\ \E w \in EverOpened : cmds = {<<"window::close", w>>}

\* C6: whenever the tab set is non-empty the selected tab is one of its keys.
C6_SelectedTabExists == terminals # {} => selected_tab \in terminals

C6_Witness ==
    lastMsg = Msg("CloseTab", 3, "None") /\ terminals = {1, 2} /\ selected_tab = 1

\* C7: a recorded window handle implies a non-empty tab set.
C7_OpenHasTabs == window_id # NoWindow => terminals # {}

C7_Witness ==
    IsCloseTab(lastMsg) /\ window_id # NoWindow /\ Cardinality(terminals) = 1

\* C8: Hotkey with no window recorded opens a window; with an empty tab set it
\* also creates one tab, which is selected (tab 1 from the initial state); with
\* a non-empty tab set it leaves tab set, selected tab and id counter alone.
C8_ToggleFromClosed ==
    [][(lastMsg'.type = "Hotkey" /\ window_id = NoWindow)
        => (/\ window_id' # NoWindow
            /\ Opened(cmds') = {window_id'}
            /\ IF terminals = {}
               THEN /\ terminals' = {new_terminal_id}
                    /\ selected_tab' = new_terminal_id
                    /\ new_terminal_id' = new_terminal_id + 1
               ELSE /\ terminals' = terminals
                    /\ selected_tab' = selected_tab
                    /\ new_terminal_id' = new_terminal_id
            /\ lastMsg.type = "start" => (terminals' = {1} /\ selected_tab' = 1))]_vars

C8_Witness ==
    /\ lastMsg.type = "Hotkey"
    /\ window_id # NoWindow
    /\ terminals = {1, 2}
    /\ new_terminal_id = 3

\* C9: CloseTab(id) for an id in the tab set removes just that id; if tabs
\* remain the smallest remaining id is selected and a FocusTab for it is
\* scheduled. OpenTab, OpenTab gives {1,2} selected 2; CloseTab(2) gives {1}
\* selected 1; CloseTab(1) gives {} and no window.
C9_CloseTabSelectsSmallest ==
    [][/\ (lastMsg'.type = "CloseTab" /\ lastMsg'.id \in terminals)
           => (/\ terminals' = terminals \ {lastMsg'.id}
               /\ terminals' # {} =>
                     /\ selected_tab' = Min(terminals')
                     /\ <<"FocusTab", Min(terminals')>> \in cmds')
       /\ scenario' = 2 => (terminals' = {1, 2} /\ selected_tab' = 2)
       /\ scenario' = 3 => (terminals' = {1} /\ selected_tab' = 1)
       /\ scenario' = 4 => (terminals' = {} /\ window_id' = NoWindow)]_vars

C9_Witness == scenario = 4

\* C10: whenever the loop has found the flag set and is about to send its
\* toggle, a signal was delivered since the previous toggle sent for the flag
\* and since the flag was last re-armed.
C10_NoDoubleCount == pc = "send_flag" => (sigSinceEmit /\ sigSinceArm)

C10_Witness == pc = "send_flag" /\ flagEmits >= 1

\* C11: SwitchTab(id), FocusTab(id) and a terminal message for id, with id not
\* in the tab set, change nothing, issue no command and do not end the run.
C11_UnknownTabIgnored ==
    [][(lastMsg'.type \in {"SwitchTab", "FocusTab", "LocalTerminal"}
            /\ lastMsg'.id \notin terminals)
        => (/\ terminals' = terminals
            /\ selected_tab' = selected_tab
            /\ new_terminal_id' = new_terminal_id
            /\ window_id' = window_id
            /\ windows' = windows
            /\ exited' = exited
            /\ cmds' = {})]_vars

C11_Witness ==
    /\ lastMsg.type \in {"SwitchTab", "FocusTab"}
    /\ lastMsg.id \notin terminals
    /\ lastMsg.id \in allocated
    /\ terminals # {}
    /\ cmds = {}

\* C12: the binding depends on (DEBUG present, platform) only: Pause without
\* modifiers when DEBUG is present, else bare F12 on Linux and Alt+F12
\* elsewhere; the globally registered binding and the key filter's binding are
\* the same key with the same modifiers, which is the one the filter accepts.
C12_HotkeyBinding ==
    LET g == global_hotkey(hotkey)
        i == iced(hotkey)
        chord == keyEvent.key = "T" /\ {"CTRL", "SHIFT"} \subseteq keyEvent.mods
    IN /\ debug_env => (g = [code |-> "Pause", mods |-> {}])
       /\ (~debug_env /\ target_os = "linux") => (g = [code |-> "F12", mods |-> {}])
       /\ (~debug_env /\ target_os # "linux") => (g = [code |-> "F12", mods |-> {"ALT"}])
       /\ i.key = g.code /\ i.mods = g.mods
       /\ (keyEvent # NoKey /\ ~chord) =>
             (filtered <=> (keyEvent.key = g.code /\ keyEvent.mods = g.mods))

C12_Witness ==
    /\ ~debug_env
    /\ target_os = "windows"
    /\ keyEvent = [key |-> "F12", mods |-> {"ALT"}]
    /\ filtered

\* C13: Shutdown issues the exit command in every state, and once Shutdown has
\* been processed no later step changes window state, tab set, selected tab
\* or id counter.
C13_ShutdownTerminal ==
    [][/\ lastMsg'.type = "Shutdown" => <<"iced::exit", 0>> \in cmds'
       /\ exitPending => UNCHANGED <<window_id, terminals, selected_tab, new_terminal_id>>]_vars

\* C14 as claimed: WindowClosed clears the handle, leaves tab set, selected tab
\* and id counter alone and issues no command, and the Hotkey that follows it
\* reopens the window with the same tabs and creates none.
C14_WindowClosedThenToggle_Claimed ==
    [][/\ lastMsg'.type = "WindowClosed"
           => (/\ window_id' = NoWindow
               /\ UNCHANGED <<terminals, selected_tab, new_terminal_id>>
               /\ cmds' = {})
       /\ (lastMsg.type = "WindowClosed" /\ lastMsg'.type = "Hotkey")
           => (/\ window_id' # NoWindow
               /\ UNCHANGED <<terminals, selected_tab, new_terminal_id>>)]_vars

\* C14 amended: as claimed, but the Hotkey that follows keeps the tabs and
\* creates none only when the tab set is non-empty; when it is empty it creates
\* exactly one tab, which is selected.
C14_WindowClosedThenToggle ==
    [][/\ lastMsg'.type = "WindowClosed"
           => (/\ window_id' = NoWindow
               /\ UNCHANGED <<terminals, selected_tab, new_terminal_id>>
               /\ cmds' = {})
       /\ (lastMsg.type = "WindowClosed" /\ lastMsg'.type = "Hotkey")
           => (/\ window_id' # NoWindow
               /\ IF terminals # {}
                  THEN UNCHANGED <<terminals, selected_tab, new_terminal_id>>
                  ELSE /\ terminals' = {new_terminal_id}
                       /\ selected_tab' = new_terminal_id
                       /\ new_terminal_id' = new_terminal_id + 1)]_vars

C14_Witness ==
    /\ lastMsg.type = "WindowClosed"
    /\ window_id = NoWindow
    /\ windows = {}
    /\ nextWindowId = 2
    /\ terminals = {1, 2}

\* C15: WindowOpened(id) leaves the handle id recorded, issues the window's
\* gain_focus in every state, and focuses the selected tab exactly when that
\* tab exists.
C15_WindowOpenedAck ==
    [][lastMsg'.type = "WindowOpened"
        => (/\ window_id' = lastMsg'.id
            /\ <<"window::gain_focus", lastMsg'.id>> \in cmds'
            /\ (<<"term.focus", selected_tab>> \in cmds') <=> (selected_tab \in terminals))]_vars

\* C20: when the controller records no window and no close event is pending,
\* no overlay window exists.
C20_HandleAgreesWithWindow ==
    (window_id = NoWindow /\ closeEvents = 0) => windows = {}

\* C19: from an open window, Hotkey or CloseWindow hides it and keeps tab set,
\* selected tab and id counter; the Hotkey that follows directly shows a
\* window again and keeps them too, so both steps together preserve them.
C19_HideShowKeepsSession ==
    [][/\ (window_id # NoWindow /\ lastMsg'.type \in {"Hotkey", "CloseWindow"})
           => (/\ window_id' = NoWindow
               /\ UNCHANGED <<terminals, selected_tab, new_terminal_id>>)
       /\ (lastMsg.type \in {"Hotkey", "CloseWindow"} /\ Closed(cmds) # {}
              /\ lastMsg'.type = "Hotkey")
           => (/\ window_id' # NoWindow
               /\ UNCHANGED <<terminals, selected_tab, new_terminal_id>>)]_vars

C19_Witness ==
    /\ toggleRun = 3
    /\ window_id = 2
    /\ selected_tab = 1
    /\ new_terminal_id = 2

\* C16: in one iteration of the loop the sources take their events in the
\* fixed order flag, hotkey, tray menu, tray icon, each source at most one
\* event, and every message is sent where its event is taken; the buffer holds
\* the messages of one source in the order their events occurred, all of them
\* later than the last one the consumer received from that source
C16_OrderedFifo ==
    /\ \A i, j \in DOMAIN iter : i < j => Rank(iter[i]) < Rank(iter[j])
    /\ Len(senderSrc) = Len(sender)
    /\ \A i, j \in DOMAIN senderSrc :
          (i < j /\ senderSrc[i][1] = senderSrc[j][1])
             => senderSrc[i][2] < senderSrc[j][2]
    /\ \A i \in DOMAIN senderSrc :
          senderSrc[i][1] \in EventSources
             => senderSrc[i][2] > lastRecv[senderSrc[i][1]]

\* an iteration in which all four sources sent, with the four messages still
\* in the buffer
C16_Witness ==
    /\ iter = <<"flag", "hotkey", "menu", "icon">>
    /\ sender = <<"Hotkey", "Hotkey", "Shutdown", "Hotkey">>

\* event number n of src waits in its receiver and is of the given kind
PendingHotkey(n) ==
    \E i \in DOMAIN hotkey_receiver :
       /\ hotkey_receiver[i] = "Pressed"
       /\ Oldest("hotkey", Len(hotkey_receiver)) + i - 1 = n
PendingMenu(n) ==
    tray_menu_receiver > 0 /\ n \in Oldest("menu", tray_menu_receiver)..occurred["menu"]
PendingClick(n) ==
    \E i \in DOMAIN tray_icon_receiver :
       /\ tray_icon_receiver[i] = "LeftDown"
       /\ Oldest("icon", Len(tray_icon_receiver)) + i - 1 = n

\* message m for event number n of src has been sent into the stream
Emitted(src, n, kind, m) ==
    \E i \in DOMAIN senderSrc : senderSrc[i] = <<src, n, kind>> /\ sender[i] = m

C18_PressReleaseTogglesOnce ==
    [][(Len(sender') < Len(sender) /\ Head(senderSrc)[1] = "hotkey")
          => IF Head(senderSrc)[3] = "Released"
             THEN /\ lastMsg'.type = "Dummy"
                  /\ cmds' = {}
                  /\ UNCHANGED <<window_id, windows, terminals, selected_tab,
                                 new_terminal_id>>
             ELSE /\ lastMsg'.type = "Hotkey"
                  /\ (window_id = NoWindow) # (window_id' = NoWindow)]_vars

\* one press and its release are the only events so far, both are processed,
\* and the window the press opened is still open after the release
C18_Witness ==
    /\ events = 2
    /\ occurred["hotkey"] = 2
    /\ lastRecv["hotkey"] = 2
    /\ lastMsg.type = "Dummy"
    /\ window_id # NoWindow
    /\ window_id \in windows

\* C21: when the loop reads the flag, it goes on to send a toggle if and only
\* if at least one SIGUSR1 was delivered since it last read the flag, and
\* what it then sends is one Hotkey message, however many signals there were
C21_SignalsCoalesce ==
    [][/\ (pc = "check_flag" /\ pc' # "check_flag")
            => ((sigSinceCheck >= 1) <=> (pc' = "send_flag"))
       /\ (pc = "send_flag" /\ pc' # "send_flag")
            => (/\ sender' = Append(sender, "Hotkey")
                /\ flagEmits' = flagEmits + 1
                /\ pc' = "reset_flag")]_vars

====
